---- MODULE Spec2Model ----
(***************************************************************************)
(* wds (esbuild-dev): reload controller (Project), Supervisor, SwcCompiler *)
(* build set and the SyncWorker bridge, as state machines.                 *)
(*                                                                         *)
(*   Spec         the parent process as wired by esbuildDev: boot, stdin   *)
(*                "rs", watcher events, the 15 ms debounce, reload runs,   *)
(*                supervisor restarts, child exits and shutdown.           *)
(*   SpecSup      class Supervisor driven through its public methods.      *)
(*   SpecSync     SyncWorker.call on the main thread against handleCall on *)
(*                the worker thread.                                       *)
(*   SpecCompiler class SwcCompiler driven through compile and             *)
(*                invalidateBuildSet.                                      *)
(***************************************************************************)
EXTENDS Integers, Sequences, FiniteSets, TLC

\* ------------------------------------------------------------------ bounds
MaxEnqueue == 2     \* watcher events delivered to enqueueReload
MaxRs == 1          \* "rs" lines read from stdin
MaxSupCalls == 3    \* Supervisor method calls made in SpecSup
MaxCalls == 3       \* SyncWorker.call invocations
MaxCompiles == 2    \* SwcCompiler.compile invocations
MaxSignals == 1     \* SIGINT / SIGTERM delivered to the parent
MaxIgnore == 2      \* "ignore" patterns in a package's config

MaxRuns == 1 + MaxRs + MaxEnqueue
MaxChildren == IF MaxRuns > MaxSupCalls THEN MaxRuns ELSE MaxSupCalls

\* ------------------------------------------------------------ file system
\* A path is [dir: sequence of directory names, name: <<base, ext, ...>>].
PackageRoots == { <<"w">>, <<"w", "sub">> }

FileB == [dir |-> <<"w">>, name |-> <<"b", ".ts">>]
FileA == [dir |-> <<"w", "sub">>, name |-> <<"a", ".ts">>]
FileD == [dir |-> <<"w">>, name |-> <<"t", ".d", ".ts">>]
FileM == [dir |-> <<"w", "node_modules", "m">>, name |-> <<"m", ".js">>]

SourceFiles == {FileA, FileB}
Files == {FileA, FileB, FileD, FileM}

IsPrefix(p, q) ==
    /\ Len(p) <= Len(q)
    /\ \A i \in 1..Len(p) : p[i] = q[i]

VARIABLES
    \* esbuildDev / Project
    supervise,        \* options.supervise
    parent,           \* "init" | "booting" | "running" | "exited"
    exitCode,         \* <<>>, or <<[code, from]>> once process.exit(code) has run
    currentBatch,     \* Project.currentBatch
    timerArmed,       \* a debouncedReload timer is pending
    runs,             \* reloadNow / invalidateBuildSetAndReload activations
    nextRun,
    rsCount,
    pendingShutdown,  \* shutdowns queued behind telemetry.shutdown().finally
    listenerProc,     \* the child carrying esbuildDev's "exit" listener (0: none)
    \* history of the reload controller
    enqLog,           \* every enqueueReload call, in order
    flushLog,         \* every flushed batch, in order
    rebuilt,          \* a rebuild begun after the last invalidateBuildSet has completed
    restartFresh,     \* rebuilt, as seen by the most recent supervisor.restart()
    reloaded,         \* the enqueueReload calls whose flush has reached its restart
    \* Supervisor
    procs,            \* the ChildProcess objects and their OS processes
    current,          \* Supervisor.process (0: undefined)
    nextChild,
    stopTimers,       \* children captured by pending stop() timers
    timerFired,       \* children whose stop() timer has run
    supCalls,
    lastExit,         \* the most recent "exit" event: <<[code, cur]>>, cur: it was Supervisor.process
    \* SwcCompiler
    compiledFiles,    \* CompiledFiles.groups, in insertion order
    compiles,         \* compile() activations
    nextCompile,
    invalidatedAt,    \* nextCompile at the last invalidateBuildSet(): the activations below it started before
    \* SyncWorker
    idCounter,
    mainpc,           \* "idle" | "posted" | "sleeping" | "resumed"
    mainCall,
    waitStatus,
    toWorker,         \* calls posted to the worker's port
    toMain,           \* responses posted to the main thread's port
    handlers,         \* handleCall activations, by call id
    slot,             \* the shared Int32 of each call
    outcome,          \* how each call ended
    got,              \* the response id each call took from the port
    posts,            \* responses posted per call
    timeouts,         \* calls that timed out so far
    \* the session: shutdown cleanups, signals, watcher, debounce clock
    cleanups,         \* Project.cleanups, in registration order
    shutdownTrace,    \* what Project.shutdown has done, in order
    sigCount,         \* SIGINT / SIGTERM received by the parent
    watcher,          \* the chokidar watcher: [open, paths]
    waited,           \* 15 ms have passed since the last debouncedReload() call
    evLog,            \* per enqueueReload call: its watcher event was structural
    \* IPC server
    broken,           \* the files whose transform currently fails
    requests,         \* "/compile" handler activations (one per compile activation)
    lastReply,        \* the most recent reply of the IPC server
    \* project configuration and ignore diagnostics
    configs,          \* the "ignore" list of each package root's config
    ignoreResult      \* the most recent isFilenameIgnored call: <<[file, result]>>

projectVars == <<supervise, parent, exitCode, currentBatch, timerArmed, runs, nextRun,
                 rsCount, pendingShutdown, listenerProc,
                 enqLog, flushLog, rebuilt, restartFresh, reloaded>>
supVars == <<procs, current, nextChild, stopTimers, timerFired, supCalls, lastExit>>
compilerVars == <<compiledFiles, compiles, nextCompile, invalidatedAt>>
syncVars == <<idCounter, mainpc, mainCall, waitStatus, toWorker, toMain, handlers,
              slot, outcome, got, posts, timeouts>>
sessionVars == <<cleanups, shutdownTrace, sigCount, watcher, waited, evLog>>
ipcVars == <<broken, requests, lastReply>>
ignoreVars == <<configs, ignoreResult>>
vars == <<projectVars, supVars, compilerVars, syncVars, sessionVars, ipcVars, ignoreVars>>

\* -------------------------------------------------------------- Supervisor
ExitCodes == {0, 2}
Signals == {"SIGTERM", "SIGKILL"}

\* st: "none" | "running" | "exited" ("exit" has been emitted);
\* sigs: the signals sent to the process while it runs.
NoProc == [st |-> "none", killed |-> FALSE, sigs |-> {}]

\* spawn("node", argv, ...): a fresh ChildProcess whose process is running.
Spawned == [NoProc EXCEPT !.st = "running"]

\* ChildProcess.kill(sig) of node: while the object still has its handle (the
\* "exit" event has not been emitted) the signal is sent and .killed is set;
\* afterwards it returns false and changes nothing.  .killed says that a signal
\* was sent, not that the process is gone.
ProcessKill(p, sig) ==
    IF p.st = "running" THEN [p EXCEPT !.killed = TRUE, !.sigs = @ \cup {sig}] ELSE p

\* The callback stop() hands to setTimeout(..., 5000), run for child c.
StopTimerBody(p) ==
    IF ~p.killed THEN ProcessKill(p, "SIGKILL") ELSE p

\* Supervisor.stop()
stop ==
    /\ procs' = [c \in 1..MaxChildren |->
                    IF c = current THEN ProcessKill(procs[c], "SIGTERM") ELSE procs[c]]
    /\ stopTimers' = stopTimers \cup {current}
    /\ UNCHANGED <<current, nextChild, timerFired, lastExit>>

\* Supervisor.kill()
kill ==
    /\ procs' = [c \in 1..MaxChildren |->
                    IF c = current THEN ProcessKill(procs[c], "SIGKILL") ELSE procs[c]]
    /\ UNCHANGED <<current, nextChild, stopTimers, timerFired, lastExit>>

\* Supervisor.restart()
restart ==
    /\ nextChild <= MaxChildren
    /\ procs' = [c \in 1..MaxChildren |->
                    IF c = current THEN ProcessKill(procs[c], "SIGKILL")
                    ELSE IF c = nextChild THEN Spawned
                    ELSE procs[c]]
    /\ current' = nextChild
    /\ nextChild' = nextChild + 1
    /\ UNCHANGED <<stopTimers, timerFired, lastExit>>

\* code ?? dflt
Nullish(code, dflt) == IF code = <<>> THEN dflt ELSE code[1]

\* The listener without its test of options.supervise.
childExitHandler_AlwaysShutdown(code) ==
    pendingShutdown' = Append(pendingShutdown, [code |-> Nullish(code, 1), from |-> "exit"])

\* esbuildDev's listener on the first child: shutdown(code ?? 1) unless supervising.
childExitHandler(code) ==
    IF ~supervise
    THEN pendingShutdown' = Append(pendingShutdown, [code |-> Nullish(code, 1), from |-> "exit"])
    ELSE pendingShutdown' = pendingShutdown

\* Child c has ended and the parent's event loop emits "exit" (code, signal)
\* for it.  The listener of Supervisor.restart only logs; esbuildDev's
\* listener sits on one child.
EmitExit(c, code, signal) ==
    /\ parent # "exited"
    /\ procs[c].st = "running"
    /\ procs' = [procs EXCEPT ![c].st = "exited", ![c].sigs = {}]
    /\ lastExit' = <<[code |-> code, cur |-> (c = current)]>>
    /\ IF c = listenerProc
       THEN childExitHandler(code)
       ELSE pendingShutdown' = pendingShutdown
    /\ UNCHANGED <<current, nextChild, stopTimers, timerFired, supCalls>>
    /\ UNCHANGED <<supervise, parent, exitCode, currentBatch, timerArmed, runs, nextRun,
                   rsCount, listenerProc, enqLog, flushLog, rebuilt, restartFresh, reloaded>>
    /\ UNCHANGED <<compilerVars, syncVars>>
    /\ UNCHANGED <<sessionVars, ipcVars, ignoreVars>>

\* The child process ends by itself with an exit code.
ChildExits(c, code) == EmitExit(c, <<code>>, "")

\* The child process is ended by a signal it was sent (SIGTERM may also be
\* ignored or handled by the child): code is null.
ChildSignalled(c, sig) ==
    /\ sig \in procs[c].sigs
    /\ EmitExit(c, <<>>, sig)

\* The 5000 ms timer of stop() runs for the child it captured.
StopTimerFire(c) ==
    /\ parent # "exited"
    /\ c \in stopTimers
    /\ procs' = [procs EXCEPT ![c] = StopTimerBody(@)]
    /\ stopTimers' = stopTimers \ {c}
    /\ timerFired' = timerFired \cup {c}
    /\ UNCHANGED <<current, nextChild, supCalls, lastExit>>
    /\ UNCHANGED <<projectVars, compilerVars, syncVars>>
    /\ UNCHANGED <<sessionVars, ipcVars, ignoreVars>>

\* A caller invokes restart(), stop() or kill().  stop() is only reached after
\* the first restart (Project.shutdown runs after boot).
SupRestart ==
    /\ supCalls < MaxSupCalls
    /\ supCalls' = supCalls + 1
    /\ restart
    /\ UNCHANGED <<projectVars, compilerVars, syncVars>>
    /\ UNCHANGED <<sessionVars, ipcVars, ignoreVars>>

SupStop ==
    /\ supCalls < MaxSupCalls
    /\ current # 0
    /\ supCalls' = supCalls + 1
    /\ stop
    /\ UNCHANGED <<projectVars, compilerVars, syncVars>>
    /\ UNCHANGED <<sessionVars, ipcVars, ignoreVars>>

SupKill ==
    /\ supCalls < MaxSupCalls
    /\ supCalls' = supCalls + 1
    /\ kill
    /\ UNCHANGED <<projectVars, compilerVars, syncVars>>
    /\ UNCHANGED <<sessionVars, ipcVars, ignoreVars>>

\* ----------------------------------------------------------- SwcCompiler (1)
\* SwcCompiler.invalidateBuildSet(): this.compiledFiles = new CompiledFiles()
invalidateBuildSet ==
    /\ compiledFiles' = <<>>
    /\ invalidatedAt' = nextCompile

\* Compiler.rebuild(), from its contract: compilation is run again for every
\* group of the build set; the groups and their files stay as they are.
rebuild(groups) == groups

\* ------------------------------------------------------------------ session
\* chokidar's watch([], { ignoreInitial: true }): open, no paths.
NewWatcher == [open |-> TRUE, paths |-> {}]

\* watcher.add resetting the path set to the path it is given.
watcherAdd_Replace(w, path) == IF w.open THEN [w EXCEPT !.paths = {path}] ELSE w

\* watcher.add(path)
watcherAdd(w, path) == IF w.open THEN [w EXCEPT !.paths = @ \cup {path}] ELSE w

\* watcher.close()
watcherClose(w) == [open |-> FALSE, paths |-> {}]

\* value.require.includes("node_modules")
IncludesNodeModules(f) == \E i \in 1..Len(f.dir) : f.dir[i] = "node_modules"

\* Project.addShutdownCleanup(cleanup)
addShutdownCleanup(cs, cleanup) == Append(cs, cleanup)

\* The cleanups in the order esbuildDev's start* calls register them (--watch,
\* --commands): startFilesystemWatcher, startTerminalCommandListener,
\* startIPCServer.
RegistrationOrder == <<"watcher.close", "reader.close", "server.close">>

\* shutdown calling process.exit before the cleanups.
ShutdownSteps_ExitBeforeCleanups(cs) == <<"stop", "exit">> \o cs

\* Project.shutdown(code): the calls it makes, in order.
ShutdownSteps(cs) == <<"stop">> \o cs \o <<"exit">>

\* process.exit ends the process: of a list of calls, those up to and
\* including "exit" are made.
RECURSIVE UntilExit(_)
UntilExit(steps) ==
    IF steps = <<>> THEN <<>>
    ELSE IF Head(steps) = "exit" THEN <<"exit">>
    ELSE <<Head(steps)>> \o UntilExit(Tail(steps))

ParentSignals == {"SIGINT", "SIGTERM"}

SignalNumber(sig) == IF sig = "SIGINT" THEN 2 ELSE 15

\* ------------------------------------------------------------------ Project
EmptyBatch == [paths |-> <<>>, invalidate |-> FALSE]

\* pc: "none" | "invalidated" (awaiting invalidateBuildSet) | "rebuilding"
\* (awaiting rebuild) | "done" | "threw"; stale: invalidateBuildSet ran since
\* this rebuild began; upto: the enqueueReload calls its flush covered.
NoRun == [pc |-> "none", kind |-> "", stale |-> FALSE, upto |-> 0]

WatcherEvents == {"change", "add", "addDir", "unlink", "unlinkDir"}

\* The events that add or remove a file or a directory.
StructuralEvents == {"add", "addDir", "unlink", "unlinkDir"}

\* startFilesystemWatcher with invalidateAndReload bound to "add" alone.
RequiresInvalidation_OnlyAdd(event) == event = "add"

\* startFilesystemWatcher: "change" reloads, the other events invalidate too.
RequiresInvalidation(event) == event # "change"

\* enqueueReload overwriting the flag instead of or-ing it.
BatchAfterEnqueue_Overwrite(batch, path, requiresInvalidation) ==
    [paths |-> Append(batch.paths, path), invalidate |-> requiresInvalidation]

\* enqueueReload setting the flag without pushing the path.
BatchAfterEnqueue_FlagOnly(batch, path, requiresInvalidation) ==
    [paths |-> batch.paths, invalidate |-> batch.invalidate \/ requiresInvalidation]

\* The batch enqueueReload leaves behind.
BatchAfterEnqueue(batch, path, requiresInvalidation) ==
    [paths |-> Append(batch.paths, path),
     invalidate |-> batch.invalidate \/ requiresInvalidation]

\* debounce(..., 15) running its callback without waiting for the 15 ms.
TimerDue_NoWait(armed, w) == armed

\* lodash's trailing-edge debounce runs its callback when a timer is pending
\* and 15 ms have passed since the last call.
TimerDue(armed, w) == armed /\ w

\* Project.enqueueReload(path, requiresInvalidation), debouncedReload() included:
\* lodash's trailing-edge debounce (re)starts its single 15 ms wait.
enqueueReload(path, requiresInvalidation) ==
    /\ currentBatch' = BatchAfterEnqueue(currentBatch, path, requiresInvalidation)
    /\ timerArmed' = TRUE
    /\ waited' = FALSE
    /\ enqLog' = Append(enqLog, [path |-> path, invalidate |-> requiresInvalidation])

\* reloadNow reading the flag after it has replaced the batch.
FlushSnapshot_ClearFirst(batch) ==
    [invalidate |-> FALSE, paths |-> batch.paths, next |-> [paths |-> <<>>, invalidate |-> FALSE]]

\* What reloadNow keeps of the batch and what it leaves in its place.
FlushSnapshot(batch) ==
    [invalidate |-> batch.invalidate, paths |-> batch.paths, next |-> EmptyBatch]

\* Every rebuild in flight began before the invalidation that happens now.
MarkStale(rs) ==
    [r \in DOMAIN rs |->
        IF rs[r].pc = "rebuilding" THEN [rs[r] EXCEPT !.stale = TRUE] ELSE rs[r]]

\* Project.reloadNow() up to its first await, as activation r.
reloadNow(r) ==
    IF currentBatch.paths = <<>>
    THEN \* currentBatch.paths[0].replace(...) throws a TypeError
         /\ runs' = [runs EXCEPT ![r] = [NoRun EXCEPT !.pc = "threw"]]
         /\ UNCHANGED <<currentBatch, flushLog, rebuilt, compiledFiles, invalidatedAt>>
    ELSE LET snap == FlushSnapshot(currentBatch) IN
         /\ currentBatch' = snap.next
         /\ flushLog' = Append(flushLog, [paths |-> snap.paths, invalidated |-> snap.invalidate])
         /\ IF snap.invalidate
            THEN /\ invalidateBuildSet
                 /\ rebuilt' = FALSE
                 /\ runs' = [MarkStale(runs) EXCEPT
                                ![r] = [pc |-> "invalidated", kind |-> "reload",
                                        stale |-> FALSE, upto |-> Len(enqLog)]]
            ELSE \* compiler.rebuild() is called at once
                 /\ runs' = [runs EXCEPT
                                ![r] = [pc |-> "rebuilding", kind |-> "reload",
                                        stale |-> FALSE, upto |-> Len(enqLog)]]
                 /\ UNCHANGED <<rebuilt, compiledFiles, invalidatedAt>>

\* Project.invalidateBuildSetAndReload() up to its first await, as activation r.
invalidateBuildSetAndReload(r, kind) ==
    /\ invalidateBuildSet
    /\ rebuilt' = FALSE
    /\ runs' = [MarkStale(runs) EXCEPT
                   ![r] = [pc |-> "invalidated", kind |-> kind, stale |-> FALSE, upto |-> 0]]

\* esbuildDev: await project.invalidateBuildSetAndReload() (the first child).
Boot ==
    /\ parent = "init"
    /\ nextRun <= MaxRuns
    /\ parent' = "booting"
    /\ invalidateBuildSetAndReload(nextRun, "boot")
    /\ nextRun' = nextRun + 1
    /\ UNCHANGED <<supervise, exitCode, currentBatch, timerArmed, rsCount, pendingShutdown,
                   listenerProc, enqLog, flushLog, restartFresh, reloaded>>
    /\ UNCHANGED <<supVars, compiles, nextCompile, syncVars>>
    /\ UNCHANGED <<sessionVars, ipcVars, ignoreVars>>

\* startTerminalCommandListener: a line "rs" on stdin.
RsCommand ==
    /\ parent # "exited"
    /\ rsCount < MaxRs
    /\ nextRun <= MaxRuns
    /\ rsCount' = rsCount + 1
    /\ invalidateBuildSetAndReload(nextRun, "rs")
    /\ nextRun' = nextRun + 1
    /\ UNCHANGED <<supervise, parent, exitCode, currentBatch, timerArmed, pendingShutdown,
                   listenerProc, enqLog, flushLog, restartFresh, reloaded>>
    /\ UNCHANGED <<supVars, compiles, nextCompile, syncVars>>
    /\ UNCHANGED <<sessionVars, ipcVars, ignoreVars>>

\* The watcher reports an event on a path; its path set is empty until a child
\* has reported the files it required.
WatcherEvent(path, event) ==
    /\ parent # "exited"
    /\ nextChild > 1
    /\ Len(enqLog) < MaxEnqueue
    /\ enqueueReload(path, RequiresInvalidation(event))
    /\ evLog' = Append(evLog, event \in StructuralEvents)
    /\ UNCHANGED <<cleanups, shutdownTrace, sigCount, watcher, ipcVars, ignoreVars>>
    /\ UNCHANGED <<supervise, parent, exitCode, runs, nextRun, rsCount, pendingShutdown,
                   listenerProc, flushLog, rebuilt, restartFresh, reloaded>>
    /\ UNCHANGED <<supVars, compilerVars, syncVars>>

\* 15 ms pass without a call of debouncedReload().
DebounceElapse ==
    /\ parent # "exited"
    /\ timerArmed
    /\ ~waited
    /\ waited' = TRUE
    /\ UNCHANGED <<projectVars, supVars, compilerVars, syncVars, ipcVars, ignoreVars>>
    /\ UNCHANGED <<cleanups, shutdownTrace, sigCount, watcher, evLog>>

\* The debounce timer's callback runs: void this.reloadNow()
DebounceFire ==
    /\ parent # "exited"
    /\ TimerDue(timerArmed, waited)
    /\ nextRun <= MaxRuns
    /\ timerArmed' = FALSE
    /\ waited' = FALSE
    /\ UNCHANGED <<cleanups, shutdownTrace, sigCount, watcher, evLog, ipcVars, ignoreVars>>
    /\ reloadNow(nextRun)
    /\ nextRun' = nextRun + 1
    /\ UNCHANGED <<supervise, parent, exitCode, rsCount, pendingShutdown, listenerProc,
                   enqLog, restartFresh, reloaded>>
    /\ UNCHANGED <<supVars, compiles, nextCompile, syncVars>>

\* Activation r resumes after await invalidateBuildSet() and calls rebuild().
RunRebuild(r) ==
    /\ parent # "exited"
    /\ runs[r].pc = "invalidated"
    /\ runs' = [runs EXCEPT ![r].pc = "rebuilding", ![r].stale = FALSE]
    /\ UNCHANGED <<supervise, parent, exitCode, currentBatch, timerArmed, nextRun, rsCount,
                   pendingShutdown, listenerProc, enqLog, flushLog, rebuilt, restartFresh, reloaded>>
    /\ UNCHANGED <<supVars, compilerVars, syncVars>>
    /\ UNCHANGED <<sessionVars, ipcVars, ignoreVars>>

\* Activation r resumes after await rebuild() and calls supervisor.restart();
\* the boot activation then lets esbuildDev attach its "exit" listener to the
\* child just spawned.
RunRestart(r) ==
    /\ parent # "exited"
    /\ runs[r].pc = "rebuilding"
    /\ runs' = [runs EXCEPT ![r] = [NoRun EXCEPT !.pc = "done"]]
    /\ compiledFiles' = rebuild(compiledFiles)
    /\ rebuilt' = (rebuilt \/ ~runs[r].stale)
    /\ restart
    /\ restartFresh' = rebuilt'
    /\ reloaded' = IF runs[r].upto > reloaded THEN runs[r].upto ELSE reloaded
    /\ IF runs[r].kind = "boot"
       THEN parent' = "running" /\ listenerProc' = current'
       ELSE UNCHANGED <<parent, listenerProc>>
    /\ UNCHANGED <<supervise, exitCode, currentBatch, timerArmed, nextRun, rsCount,
                   pendingShutdown, enqLog, flushLog>>
    /\ UNCHANGED <<supCalls, lastExit, compiles, nextCompile, invalidatedAt, syncVars>>
    /\ UNCHANGED <<sessionVars, ipcVars, ignoreVars>>

\* Project.shutdown(code), for the oldest queued request.
Shutdown ==
    /\ parent # "exited"
    /\ pendingShutdown # <<>>
    /\ LET done == UntilExit(ShutdownSteps(cleanups)) IN
       /\ shutdownTrace' = done
       /\ IF \E i \in 1..Len(done) : done[i] = "stop"
          THEN stop
          ELSE UNCHANGED <<procs, stopTimers, current, nextChild, timerFired, lastExit>>
       /\ watcher' = IF \E i \in 1..Len(done) : done[i] = "watcher.close"
                     THEN watcherClose(watcher) ELSE watcher
    /\ UNCHANGED <<cleanups, sigCount, waited, evLog, ipcVars, ignoreVars>>
    /\ parent' = "exited"
    /\ exitCode' = <<Head(pendingShutdown)>>
    /\ pendingShutdown' = Tail(pendingShutdown)
    /\ UNCHANGED <<supervise, currentBatch, timerArmed, runs, nextRun, rsCount, listenerProc,
                   enqLog, flushLog, rebuilt, restartFresh, reloaded>>
    /\ UNCHANGED <<supCalls, lastExit, compilerVars, syncVars>>

\* SIGINT or SIGTERM reaches the parent.  esbuildDev installs its handlers
\* after the await of the boot reload; before that node's default disposition
\* ends the process at once.
ParentSignal(sig) ==
    /\ parent # "exited"
    /\ sigCount < MaxSignals
    /\ sigCount' = sigCount + 1
    /\ IF parent = "running"
       THEN /\ pendingShutdown' = Append(pendingShutdown, [code |-> 0, from |-> sig])
            /\ UNCHANGED <<parent, exitCode>>
       ELSE /\ parent' = "exited"
            /\ exitCode' = <<[code |-> 128 + SignalNumber(sig), from |-> "default"]>>
            /\ UNCHANGED pendingShutdown
    /\ UNCHANGED <<supervise, currentBatch, timerArmed, runs, nextRun, rsCount, listenerProc,
                   enqLog, flushLog, rebuilt, restartFresh, reloaded>>
    /\ UNCHANGED <<cleanups, shutdownTrace, watcher, waited, evLog>>
    /\ UNCHANGED <<supVars, compilerVars, syncVars, ipcVars, ignoreVars>>

\* startFilesystemWatcher: a child reports a file it required through the
\* supervisor's "message" event.
ChildRequire(path) ==
    /\ parent # "exited"
    /\ nextChild > 1
    /\ watcher' = IF ~IncludesNodeModules(path) THEN watcherAdd(watcher, path) ELSE watcher
    /\ UNCHANGED <<cleanups, shutdownTrace, sigCount, waited, evLog>>
    /\ UNCHANGED <<projectVars, supVars, compilerVars, syncVars, ipcVars, ignoreVars>>

\* --------------------------------------------------------------- SyncWorker
CallIds == 0..(MaxCalls - 1)

\* pc: "none" | "running" (awaiting implementation(...args)) | "tail" (the
\* response is posted; step indexes HandleCallTail) | "done"
NoHandler == [pc |-> "none", step |-> 0]

\* handleCall with Atomics.notify before Atomics.add.
HandleCallTail_NotifyFirst == <<"notify", "add">>

\* What handleCall does on the shared slot after posting the response.
HandleCallTail == <<"add", "notify">>

\* call() without its test of response.id.
ResponseOutcome_NoIdCheck(id, response) ==
    IF response.kind = "error" THEN "rethrown" ELSE "returned"

\* call() rejecting only the responses of calls made after it.
ResponseOutcome_NewerIdOnly(id, response) ==
    IF response.id > id THEN "bad-id"
    ELSE IF response.kind = "error" THEN "rethrown"
    ELSE "returned"

\* How call(id) ends on the message it took from the port.
ResponseOutcome(id, response) ==
    IF response.id # id THEN "bad-id"
    ELSE IF response.kind = "error" THEN "rethrown"
    ELSE "returned"

\* SyncWorker.call up to this.port.postMessage(call): a fresh id and a fresh
\* zeroed SharedArrayBuffer.
CallPost ==
    /\ mainpc = "idle"
    /\ idCounter < MaxCalls
    /\ mainCall' = idCounter
    /\ idCounter' = idCounter + 1
    /\ slot' = [slot EXCEPT ![idCounter] = 0]
    /\ toWorker' = Append(toWorker, idCounter)
    /\ mainpc' = "posted"
    /\ waitStatus' = "none"
    /\ UNCHANGED <<toMain, handlers, outcome, got, posts, timeouts>>
    /\ UNCHANGED <<projectVars, supVars, compilerVars>>
    /\ UNCHANGED <<sessionVars, ipcVars, ignoreVars>>

\* Atomics.wait(sharedBufferView, 0, 0, 60000): compares and, if equal, goes
\* to sleep, in one atomic step.
CallWait ==
    /\ mainpc = "posted"
    /\ IF slot[mainCall] # 0
       THEN mainpc' = "resumed" /\ waitStatus' = "not-equal"
       ELSE mainpc' = "sleeping" /\ waitStatus' = "none"
    /\ UNCHANGED <<idCounter, mainCall, toWorker, toMain, handlers, slot, outcome, got,
                   posts, timeouts>>
    /\ UNCHANGED <<projectVars, supVars, compilerVars>>
    /\ UNCHANGED <<sessionVars, ipcVars, ignoreVars>>

\* The wait ends "timed-out": call throws.
CallTimeout ==
    /\ mainpc = "sleeping"
    /\ waitStatus' = "timed-out"
    /\ outcome' = [outcome EXCEPT ![mainCall] = "timed-out"]
    /\ timeouts' = timeouts \cup {mainCall}
    /\ mainpc' = "idle"
    /\ UNCHANGED <<idCounter, mainCall, toWorker, toMain, handlers, slot, got, posts>>
    /\ UNCHANGED <<projectVars, supVars, compilerVars>>
    /\ UNCHANGED <<sessionVars, ipcVars, ignoreVars>>

\* After "ok" or "not-equal": receiveMessageOnPort(this.port) and the checks
\* on the message.
CallReceive ==
    /\ mainpc = "resumed"
    /\ IF toMain = <<>>
       THEN /\ outcome' = [outcome EXCEPT ![mainCall] = "no-response"]
            /\ UNCHANGED <<toMain, got>>
       ELSE /\ toMain' = Tail(toMain)
            /\ got' = [got EXCEPT ![mainCall] = Append(@, Head(toMain).id)]
            /\ outcome' = [outcome EXCEPT ![mainCall] = ResponseOutcome(mainCall, Head(toMain))]
    /\ mainpc' = "idle"
    /\ UNCHANGED <<idCounter, mainCall, waitStatus, toWorker, handlers, slot, posts, timeouts>>
    /\ UNCHANGED <<projectVars, supVars, compilerVars>>
    /\ UNCHANGED <<sessionVars, ipcVars, ignoreVars>>

\* The worker is one thread: while a handleCall is between its postMessage and
\* its Atomics.notify no other callback of the worker runs.
WorkerFree == \A i \in CallIds : handlers[i].pc # "tail"

\* port "message": handleCall(call) starts and awaits the implementation.
WorkerReceive ==
    /\ WorkerFree
    /\ toWorker # <<>>
    /\ handlers' = [handlers EXCEPT ![Head(toWorker)] = [pc |-> "running", step |-> 0]]
    /\ toWorker' = Tail(toWorker)
    /\ UNCHANGED <<idCounter, mainpc, mainCall, waitStatus, toMain, slot, outcome, got,
                   posts, timeouts>>
    /\ UNCHANGED <<projectVars, supVars, compilerVars>>
    /\ UNCHANGED <<sessionVars, ipcVars, ignoreVars>>

\* port.postMessage(response) with the message not reaching the port's queue.
PortAfterPost_Dropped(port, response) == port

\* port.postMessage(response): the message is in the receiving port's queue
\* when postMessage returns.
PortAfterPost(port, response) == Append(port, response)

\* The implementation resolves ("result") or rejects ("error") and handleCall
\* posts {id, result} or {id, error}.
WorkerPost(id, kind) ==
    /\ WorkerFree
    /\ handlers[id].pc = "running"
    /\ toMain' = PortAfterPost(toMain, [id |-> id, kind |-> kind])
    /\ posts' = [posts EXCEPT ![id] = @ + 1]
    /\ handlers' = [handlers EXCEPT ![id] = [pc |-> "tail", step |-> 1]]
    /\ UNCHANGED <<idCounter, mainpc, mainCall, waitStatus, toWorker, slot, outcome, got,
                   timeouts>>
    /\ UNCHANGED <<projectVars, supVars, compilerVars>>
    /\ UNCHANGED <<sessionVars, ipcVars, ignoreVars>>

AfterTailStep(h) ==
    IF h.step = Len(HandleCallTail) THEN [pc |-> "done", step |-> 0]
    ELSE [h EXCEPT !.step = @ + 1]

\* Atomics.add(sharedBufferView, 0, 1)
WorkerAdd(id) ==
    /\ handlers[id].pc = "tail"
    /\ HandleCallTail[handlers[id].step] = "add"
    /\ slot' = [slot EXCEPT ![id] = @ + 1]
    /\ handlers' = [handlers EXCEPT ![id] = AfterTailStep(@)]
    /\ UNCHANGED <<idCounter, mainpc, mainCall, waitStatus, toWorker, toMain, outcome, got,
                   posts, timeouts>>
    /\ UNCHANGED <<projectVars, supVars, compilerVars>>
    /\ UNCHANGED <<sessionVars, ipcVars, ignoreVars>>

\* Atomics.notify(sharedBufferView, 0, Infinity): wakes the main thread if it
\* sleeps on this call's slot.
WorkerNotify(id) ==
    /\ handlers[id].pc = "tail"
    /\ HandleCallTail[handlers[id].step] = "notify"
    /\ IF mainpc = "sleeping" /\ mainCall = id
       THEN mainpc' = "resumed" /\ waitStatus' = "ok"
       ELSE UNCHANGED <<mainpc, waitStatus>>
    /\ handlers' = [handlers EXCEPT ![id] = AfterTailStep(@)]
    /\ UNCHANGED <<idCounter, mainCall, toWorker, toMain, slot, outcome, got, posts, timeouts>>
    /\ UNCHANGED <<projectVars, supVars, compilerVars>>
    /\ UNCHANGED <<sessionVars, ipcVars, ignoreVars>>

\* ----------------------------------------------------------- SwcCompiler (2)
DefaultExtensions == {".tsx", ".ts", ".jsx", ".mjs", ".cjs", ".js"}

\* The project config read for a package root: its "ignore" list (no esbuild
\* options).
projectConfig(root) == [ignore |-> configs[root], resolveExtensions |-> {}]

\* fileGlobPatterns(config): `**/*{ext,...}`
fileGlobPatterns(config) ==
    << [neg |-> FALSE, kind |-> "ext",
        exts |-> IF config.resolveExtensions # {} THEN config.resolveExtensions
                 ELSE DefaultExtensions] >>

\* ignoreFileGlobPatterns(config): `!node_modules`, `!**/*.d.ts`, `!${ignore}`...
ignoreFileGlobPatterns(config) ==
    << [neg |-> TRUE, kind |-> "dir", name |-> "node_modules"],
       [neg |-> TRUE, kind |-> "suffix", suffix |-> <<".d", ".ts">>] >>
    \o [i \in 1..Len(config.ignore) |-> [config.ignore[i] EXCEPT !.neg = TRUE]]

\* Whether a glob pattern matches the file at reldir/name below the cwd.
GlobMatches(pat, reldir, name) ==
    CASE pat.kind = "ext" -> name[Len(name)] \in pat.exts
      [] pat.kind = "dir" -> reldir # <<>> /\ reldir[1] = pat.name
      [] pat.kind = "suffix" ->
            /\ Len(name) > Len(pat.suffix)
            /\ SubSeq(name, Len(name) - Len(pat.suffix) + 1, Len(name)) = pat.suffix
      [] OTHER -> FALSE

\* globby(patterns, {cwd, absolute: true}): the files below cwd that a
\* positive pattern matches and no negated pattern matches.
globby(patterns, cwd) ==
    {f \in Files :
        /\ IsPrefix(cwd, f.dir)
        /\ LET reldir == SubSeq(f.dir, Len(cwd) + 1, Len(f.dir)) IN
           /\ \E i \in 1..Len(patterns) :
                 ~patterns[i].neg /\ GlobMatches(patterns[i], reldir, f.name)
           /\ \A i \in 1..Len(patterns) :
                 patterns[i].neg => ~GlobMatches(patterns[i], reldir, f.name)}

\* findRoot(filename): the nearest enclosing directory holding a package manifest.
findRoot(filename) ==
    CHOOSE root \in PackageRoots :
        /\ IsPrefix(root, filename.dir)
        /\ \A other \in PackageRoots :
              IsPrefix(other, filename.dir) => Len(other) <= Len(root)

\* CompiledFiles.group(filename): the first group holding the file, <<>> if none.
group(groups, filename) ==
    LET holding == {i \in 1..Len(groups) : filename \in groups[i].files} IN
    IF holding = {} THEN <<>>
    ELSE <<groups[CHOOSE i \in holding : \A j \in holding : i <= j]>>

\* The CompiledFile a group holds for a file is identified by the compile()
\* activation whose transform produced it: code[filename], 0 for none.
NoCode == [f \in Files |-> 0]

\* CompiledFiles.addFile(file), with the whole group replaced by the new file.
addFile_ReplaceGroup(groups, filename, root, code) ==
    IF \E i \in 1..Len(groups) : groups[i].root = root
    THEN [i \in 1..Len(groups) |->
             IF groups[i].root = root
             THEN [groups[i] EXCEPT !.files = {filename},
                                    !.code = [NoCode EXCEPT ![filename] = code]]
             ELSE groups[i]]
    ELSE Append(groups, [root |-> root, files |-> {filename},
                         code |-> [NoCode EXCEPT ![filename] = code]])

\* CompiledFiles.addFile(file): groups.get(file.root).set(file.filename, file)
addFile(groups, filename, root, code) ==
    IF \E i \in 1..Len(groups) : groups[i].root = root
    THEN [i \in 1..Len(groups) |->
             IF groups[i].root = root
             THEN [groups[i] EXCEPT !.files = @ \cup {filename}, !.code[filename] = code]
             ELSE groups[i]]
    ELSE Append(groups, [root |-> root, files |-> {filename},
                         code |-> [NoCode EXCEPT ![filename] = code]])

\* SwcCompiler.getModule(filename): the root and the files globbed below it.
getModule(filename) ==
    LET root == findRoot(filename)
        config == projectConfig(root)
    IN [root |-> root,
        fileNames |-> globby(fileGlobPatterns(config) \o ignoreFileGlobPatterns(config), root)]

\* isFilenameIgnored(filename): <<>> for false, else <<the ignore glob>> that,
\* alone with the include globs, leaves the file out (the first such glob).
isFilenameIgnored(filename) ==
    LET root == findRoot(filename)
        config == projectConfig(root)
        includeGlobs == fileGlobPatterns(config)
        ignoreGlobs == ignoreFileGlobPatterns(config)
        actual == globby(includeGlobs \o ignoreGlobs, root)
        all == globby(includeGlobs, root)
        culprits == {i \in 1..Len(ignoreGlobs) :
                        filename \notin globby(includeGlobs \o <<ignoreGlobs[i]>>, root)}
    IN IF filename \notin actual /\ filename \in all /\ culprits # {}
       THEN <<ignoreGlobs[CHOOSE i \in culprits : \A j \in culprits : i <= j]>>
       ELSE <<>>

\* pc: "none" | "getModule" (buildGroup awaiting getModule) | "building"
\* (awaiting the transforms of the files in pending) | "done";
\* kind: "file" (buildFile of an existing group) | "group" (buildGroup);
\* failed: the files whose transform rejected; ret: the promise of compile(),
\* "no" (pending) | "ok" (resolved) | "threw" (rejected).
NoCompile == [pc |-> "none", file |-> <<>>, root |-> <<>>, pending |-> {},
              kind |-> "", failed |-> {}, ret |-> "no"]

\* SwcCompiler.compile(filename) up to its first await, as activation k.
compile(k, filename) ==
    LET existingGroup == group(compiledFiles, filename) IN
    compiles' = [compiles EXCEPT ![k] =
                    IF existingGroup # <<>>
                    THEN [NoCompile EXCEPT !.pc = "building", !.file = <<filename>>,
                                           !.root = existingGroup[1].root,
                                           !.pending = {filename}, !.kind = "file"]
                    ELSE [NoCompile EXCEPT !.pc = "getModule", !.file = <<filename>>,
                                           !.kind = "group"]]

\* A caller invokes compile(filename).
CompileStart(filename) ==
    /\ nextCompile <= MaxCompiles
    /\ compile(nextCompile, filename)
    /\ nextCompile' = nextCompile + 1
    /\ UNCHANGED <<compiledFiles, invalidatedAt>>
    /\ UNCHANGED <<projectVars, supVars, syncVars>>
    /\ UNCHANGED <<sessionVars, ipcVars, ignoreVars>>

\* buildGroup resumes after getModule and starts buildFile for every file.
GetModuleDone(k) ==
    /\ compiles[k].pc = "getModule"
    /\ LET module == getModule(compiles[k].file[1]) IN
       compiles' = [compiles EXCEPT ![k].pc = "building", ![k].root = module.root,
                                    ![k].pending = module.fileNames]
    /\ UNCHANGED <<compiledFiles, nextCompile, invalidatedAt>>
    /\ UNCHANGED <<projectVars, supVars, syncVars>>
    /\ UNCHANGED <<sessionVars, ipcVars, ignoreVars>>

\* An activation whose promise is settled and whose transforms have all ended
\* keeps only how it settled.
Settled(c) ==
    IF c.pc = "building" /\ c.pending = {} /\ c.ret # "no"
    THEN [NoCompile EXCEPT !.pc = "done", !.ret = c.ret, !.failed = c.failed]
    ELSE c

\* buildFile(filename, root) resumes after transformFile has resolved:
\* this.compiledFiles.addFile(file)
BuildFileDone(k, filename) ==
    /\ compiles[k].pc = "building"
    /\ filename \in compiles[k].pending
    /\ filename \notin broken
    /\ compiledFiles' = addFile(compiledFiles, filename, compiles[k].root, k)
    /\ compiles' = [compiles EXCEPT ![k] = Settled([@ EXCEPT !.pending = @ \ {filename}])]
    /\ UNCHANGED <<nextCompile, invalidatedAt>>
    /\ UNCHANGED <<projectVars, supVars, syncVars>>
    /\ UNCHANGED <<sessionVars, ipcVars, ignoreVars>>

\* transformFile rejects (the file does not parse): buildFile throws.
BuildFileFail(k, filename) ==
    /\ compiles[k].pc = "building"
    /\ filename \in compiles[k].pending
    /\ filename \in broken
    /\ compiles' = [compiles EXCEPT ![k] =
                       Settled([@ EXCEPT !.pending = @ \ {filename},
                                         !.failed = @ \cup {filename}])]
    /\ UNCHANGED <<compiledFiles, nextCompile, invalidatedAt>>
    /\ UNCHANGED <<projectVars, supVars, syncVars>>
    /\ UNCHANGED <<sessionVars, ipcVars, ignoreVars>>

\* compile resumes after buildFile / buildGroup: buildFile's rejection goes
\* through, buildGroup's reportErrors logs the first rejection of Promise.all
\* and compile returns.
CompileReturn(k) ==
    /\ compiles[k].pc = "building"
    /\ compiles[k].ret = "no"
    /\ compiles[k].pending = {} \/ compiles[k].failed # {}
    /\ compiles' = [compiles EXCEPT ![k] =
                       Settled([@ EXCEPT !.ret = IF compiles[k].kind = "file"
                                                    /\ compiles[k].failed # {}
                                                 THEN "threw" ELSE "ok"])]
    /\ UNCHANGED <<compiledFiles, nextCompile, invalidatedAt>>
    /\ UNCHANGED <<projectVars, supVars, syncVars>>
    /\ UNCHANGED <<sessionVars, ipcVars, ignoreVars>>

\* A caller invokes invalidateBuildSet().
InvalidateCall ==
    /\ invalidateBuildSet
    /\ UNCHANGED <<compiles, nextCompile>>
    /\ UNCHANGED <<projectVars, supVars, syncVars>>
    /\ UNCHANGED <<sessionVars, ipcVars, ignoreVars>>

\* A caller invokes isFilenameIgnored(filename).
IsFilenameIgnoredCall(filename) ==
    /\ ignoreResult' = <<[file |-> filename, result |-> isFilenameIgnored(filename)]>>
    /\ UNCHANGED configs
    /\ UNCHANGED <<projectVars, supVars, compilerVars, syncVars, sessionVars, ipcVars>>

\* --------------------------------------------------------------- IPC server
NoRequest == [pc |-> "none", file |-> <<>>]

\* The files a child asks the server to compile, the files it reports in
\* "require" messages, and the file the user breaks and repairs.
CompileRequests == {FileA, FileB, FileM}
RequireMessages == {FileB, FileM}
EditedFiles == {FileA}

\* The bodies of "/file-required" requests.
RequiredBodies == { <<FileA>>, <<FileM>>, <<FileB, FileM>> }

\* reply.json({ filenames: results }): JSON leaves out a key whose value is
\* undefined (results = <<>>).
CompileReplyBody(results) ==
    [keys |-> IF results = <<>> THEN {} ELSE {"filenames"},
     filenames |-> IF results = <<>> THEN {} ELSE results[1],
     status |-> ""]

\* reply.json({ status: "ok" })
RequiredReplyBody == [keys |-> {"status"}, filenames |-> {}, status |-> "ok"]

\* The user saves a source file with, or without, a syntax error.
EditFile(f) ==
    /\ broken' = IF f \in broken THEN broken \ {f} ELSE broken \cup {f}
    /\ UNCHANGED <<requests, lastReply>>
    /\ UNCHANGED <<projectVars, supVars, compilerVars, syncVars, sessionVars, ignoreVars>>

\* "/compile": the handler up to the await of project.compiler.compile(filename).
IpcCompile(filename) ==
    /\ parent # "exited"
    /\ nextChild > 1
    /\ nextCompile <= MaxCompiles
    /\ compile(nextCompile, filename)
    /\ requests' = [requests EXCEPT ![nextCompile] = [pc |-> "compiling", file |-> <<filename>>]]
    /\ nextCompile' = nextCompile + 1
    /\ UNCHANGED <<compiledFiles, invalidatedAt, broken, lastReply>>
    /\ UNCHANGED <<projectVars, supVars, syncVars, sessionVars, ignoreVars>>

\* "/compile": the handler resumes once compile() has settled.  Resolved:
\* watcher.add(filename), then fileGroup(filename), which throws when no group
\* holds the file.  Every exception is caught and logged, the helper then
\* returns undefined; the reply is { filenames: results } in every case.
IpcCompileDone(q) ==
    /\ parent # "exited"
    /\ requests[q].pc = "compiling"
    /\ compiles[q].ret # "no"
    /\ LET filename == requests[q].file[1]
           found == group(compiledFiles, filename)
           results == IF compiles[q].ret = "ok" /\ found # <<>>
                      THEN <<found[1].files>> ELSE <<>>
       IN /\ watcher' = IF compiles[q].ret = "ok"
                        THEN watcherAdd(watcher, filename) ELSE watcher
          /\ lastReply' = <<[route |-> "/compile", request |-> <<filename>>,
                             body |-> CompileReplyBody(results),
                             failed |-> filename \in compiles[q].failed]>>
    /\ requests' = [requests EXCEPT ![q] = [NoRequest EXCEPT !.pc = "replied"]]
    /\ UNCHANGED broken
    /\ UNCHANGED <<cleanups, shutdownTrace, sigCount, waited, evLog>>
    /\ UNCHANGED <<projectVars, supVars, compilerVars, syncVars, ignoreVars>>

RECURSIVE AddAll(_, _)
AddAll(w, paths) ==
    IF paths = <<>> THEN w ELSE AddAll(watcherAdd(w, Head(paths)), Tail(paths))

\* "/file-required": watcher.add for every filename of the body, then the reply.
IpcFileRequired(paths) ==
    /\ parent # "exited"
    /\ nextChild > 1
    /\ watcher' = AddAll(watcher, paths)
    /\ lastReply' = <<[route |-> "/file-required", request |-> paths,
                       body |-> RequiredReplyBody, failed |-> FALSE]>>
    /\ UNCHANGED <<broken, requests>>
    /\ UNCHANGED <<cleanups, shutdownTrace, sigCount, waited, evLog>>
    /\ UNCHANGED <<projectVars, supVars, compilerVars, syncVars, ignoreVars>>

\* ------------------------------------------------------------ initial state
InitProject ==
    /\ supervise \in BOOLEAN
    /\ parent = "init"
    /\ exitCode = <<>>
    /\ currentBatch = EmptyBatch
    /\ timerArmed = FALSE
    /\ runs = [r \in 1..MaxRuns |-> NoRun]
    /\ nextRun = 1
    /\ rsCount = 0
    /\ pendingShutdown = <<>>
    /\ listenerProc = 0
    /\ enqLog = <<>>
    /\ flushLog = <<>>
    /\ rebuilt = TRUE
    /\ restartFresh = TRUE
    /\ reloaded = 0

InitSup ==
    /\ procs = [c \in 1..MaxChildren |-> NoProc]
    /\ current = 0
    /\ nextChild = 1
    /\ stopTimers = {}
    /\ timerFired = {}
    /\ supCalls = 0
    /\ lastExit = <<>>

InitCompiler ==
    /\ compiledFiles = <<>>
    /\ compiles = [k \in 1..MaxCompiles |-> NoCompile]
    /\ nextCompile = 1
    /\ invalidatedAt = 1

InitSync ==
    /\ idCounter = 0
    /\ mainpc = "idle"
    /\ mainCall = 0
    /\ waitStatus = "none"
    /\ toWorker = <<>>
    /\ toMain = <<>>
    /\ handlers = [i \in 0..(MaxCalls - 1) |-> NoHandler]
    /\ slot = [i \in 0..(MaxCalls - 1) |-> 0]
    /\ outcome = [i \in 0..(MaxCalls - 1) |-> "none"]
    /\ got = [i \in 0..(MaxCalls - 1) |-> <<>>]
    /\ posts = [i \in 0..(MaxCalls - 1) |-> 0]
    /\ timeouts = {}

\* esbuildDev up to its call of invalidateBuildSetAndReload, run with --watch
\* and --commands: the watcher, the stdin reader and the IPC server exist and
\* have registered their cleanups.
InitSession ==
    /\ cleanups = addShutdownCleanup(addShutdownCleanup(addShutdownCleanup(<<>>,
                      "watcher.close"), "reader.close"), "server.close")
    /\ shutdownTrace = <<>>
    /\ sigCount = 0
    /\ watcher = NewWatcher
    /\ waited = FALSE
    /\ evLog = <<>>

InitIpc ==
    /\ broken = {}
    /\ requests = [q \in 1..MaxCompiles |-> NoRequest]
    /\ lastReply = <<>>

InitIgnore ==
    /\ configs = [root \in PackageRoots |-> <<>>]
    /\ ignoreResult = <<>>

Init == InitProject /\ InitSup /\ InitCompiler /\ InitSync /\ InitSession /\ InitIpc /\ InitIgnore

\* ------------------------------------------------- the parent process (Spec)
Next ==
    \/ Boot
    \/ RsCommand
    \/ \E path \in SourceFiles, event \in WatcherEvents : WatcherEvent(path, event)
    \/ DebounceElapse
    \/ DebounceFire
    \/ \E r \in 1..MaxRuns : RunRebuild(r)
    \/ \E r \in 1..MaxRuns : RunRestart(r)
    \/ \E c \in 1..MaxChildren, code \in ExitCodes : ChildExits(c, code)
    \/ \E c \in 1..MaxChildren, sig \in Signals : ChildSignalled(c, sig)
    \/ Shutdown

Spec == Init /\ [][Next]_vars

\* ------------------------------------------------ class Supervisor (SpecSup)
NextSup ==
    \/ SupRestart
    \/ SupStop
    \/ SupKill
    \/ \E c \in 1..MaxChildren : StopTimerFire(c)
    \/ \E c \in 1..MaxChildren, code \in ExitCodes : ChildExits(c, code)
    \/ \E c \in 1..MaxChildren, sig \in Signals : ChildSignalled(c, sig)

SpecSup == Init /\ [][NextSup]_vars

\* ------------------------------------------------------ SyncWorker (SpecSync)
NextSync ==
    \/ CallPost
    \/ CallWait
    \/ CallTimeout
    \/ CallReceive
    \/ WorkerReceive
    \/ \E id \in CallIds, kind \in {"result", "error"} : WorkerPost(id, kind)
    \/ \E id \in CallIds : WorkerAdd(id)
    \/ \E id \in CallIds : WorkerNotify(id)

SpecSync == Init /\ [][NextSync]_vars

\* ---------------------------------------------- class SwcCompiler (SpecCompiler)
NextCompiler ==
    \/ \E filename \in Files : CompileStart(filename)
    \/ \E k \in 1..MaxCompiles : GetModuleDone(k)
    \/ \E k \in 1..MaxCompiles, filename \in Files : BuildFileDone(k, filename)
    \/ \E k \in 1..MaxCompiles : CompileReturn(k)
    \/ InvalidateCall

SpecCompiler == Init /\ [][NextCompiler]_vars

\* ------------------------------------------- IPC server and watcher (SpecIpc)
NextIpc ==
    \/ Boot
    \/ \E r \in 1..MaxRuns : RunRebuild(r)
    \/ \E r \in 1..MaxRuns : RunRestart(r)
    \/ \E path \in RequireMessages : ChildRequire(path)
    \/ \E filename \in CompileRequests : IpcCompile(filename)
    \/ \E k \in 1..MaxCompiles : GetModuleDone(k)
    \/ \E k \in 1..MaxCompiles, filename \in Files : BuildFileDone(k, filename)
    \/ \E k \in 1..MaxCompiles, filename \in Files : BuildFileFail(k, filename)
    \/ \E k \in 1..MaxCompiles : CompileReturn(k)
    \/ \E q \in 1..MaxCompiles : IpcCompileDone(q)
    \/ \E paths \in RequiredBodies : IpcFileRequired(paths)
    \/ \E f \in EditedFiles : EditFile(f)

SpecIpc == Init /\ [][NextIpc]_vars

\* ------------------------------- reloads against a growing watcher (SpecWatch)
NextWatch ==
    \/ Boot
    \/ \E path \in SourceFiles, event \in WatcherEvents : WatcherEvent(path, event)
    \/ DebounceElapse
    \/ DebounceFire
    \/ \E r \in 1..MaxRuns : RunRebuild(r)
    \/ \E r \in 1..MaxRuns : RunRestart(r)
    \/ \E path \in RequireMessages : ChildRequire(path)
    \/ \E paths \in RequiredBodies : IpcFileRequired(paths)
    \/ \E sig \in ParentSignals : ParentSignal(sig)
    \/ Shutdown

SpecWatch == Init /\ [][NextWatch]_vars

\* ------------------------------------ signals and child exits (SpecSignal)
NextSignal ==
    \/ Boot
    \/ \E r \in 1..MaxRuns : RunRebuild(r)
    \/ \E r \in 1..MaxRuns : RunRestart(r)
    \/ RsCommand
    \/ \E c \in 1..MaxChildren, code \in ExitCodes : ChildExits(c, code)
    \/ \E c \in 1..MaxChildren, sig \in Signals : ChildSignalled(c, sig)
    \/ \E sig \in ParentSignals : ParentSignal(sig)
    \/ Shutdown

SpecSignal == Init /\ [][NextSignal]_vars

\* --------------------------------------------- ignore diagnostics (SpecIgnore)
IgnoreChoices ==
    { [neg |-> FALSE, kind |-> "suffix", suffix |-> <<".ts">>],
      [neg |-> FALSE, kind |-> "suffix", suffix |-> <<".d", ".ts">>],
      [neg |-> FALSE, kind |-> "dir", name |-> "sub"] }

RECURSIVE SeqsUpTo(_, _)
SeqsUpTo(S, n) ==
    IF n = 0 THEN {<<>>}
    ELSE SeqsUpTo(S, n - 1) \cup {Append(q, x) : q \in SeqsUpTo(S, n - 1), x \in S}

\* As Init, with any "ignore" list of up to MaxIgnore patterns in each
\* package's config.
InitConfigured ==
    /\ InitProject /\ InitSup /\ InitCompiler /\ InitSync /\ InitSession /\ InitIpc
    /\ configs \in [PackageRoots -> SeqsUpTo(IgnoreChoices, MaxIgnore)]
    /\ ignoreResult = <<>>

NextIgnore == \E filename \in Files : IsFilenameIgnoredCall(filename)

SpecIgnore == InitConfigured /\ [][NextIgnore]_vars

\* The debounce timer and the awaited compiler steps are scheduled by node's
\* event loop: a step that stays enabled is eventually taken.
FairSpec ==
    /\ Spec
    /\ WF_vars(DebounceElapse)
    /\ WF_vars(DebounceFire)
    /\ \A r \in 1..MaxRuns : WF_vars(RunRebuild(r)) /\ WF_vars(RunRestart(r))

\* =================================================================== claims
\* C1: every supervisor.restart() happens when a rebuild() that began after
\* the most recent invalidateBuildSet() has completed.
C1_RestartSeesFreshBuildSet == restartFresh

\* ------------------------------------------------------------------------
RECURSIVE FlushedPaths(_)
FlushedPaths(log) ==
    IF log = <<>> THEN <<>> ELSE Head(log).paths \o FlushedPaths(Tail(log))

RECURSIVE FlushedUpto(_, _)
FlushedUpto(log, k) ==
    IF k = 0 THEN 0 ELSE Len(log[k].paths) + FlushedUpto(log, k - 1)

EnqPaths == [i \in 1..Len(enqLog) |-> enqLog[i].path]

AnyInvalidate(from, to) == \E i \in from..to : enqLog[i].invalidate

\* C2: the paths given to enqueueReload are, in call order, exactly the paths
\* of the flushed batches followed by the pending batch (each call's path is in
\* one batch and no other); a flush calls invalidateBuildSet iff one of the
\* calls of its batch asked for it; the pending batch carries the flag of its
\* calls and, while it is not empty, the debounce timer that will flush it.
C2_NoChangeDropped ==
    /\ FlushedPaths(flushLog) \o currentBatch.paths = EnqPaths
    /\ \A k \in 1..Len(flushLog) :
          /\ flushLog[k].paths # <<>>
          /\ flushLog[k].invalidated =
                AnyInvalidate(FlushedUpto(flushLog, k - 1) + 1, FlushedUpto(flushLog, k))
    /\ currentBatch.invalidate =
          AnyInvalidate(FlushedUpto(flushLog, Len(flushLog)) + 1, Len(enqLog))
    /\ (currentBatch.paths # <<>> => timerArmed)

\* A change enqueued while an invalidating flush is still awaiting the compiler.
C2_Witness ==
    /\ Len(flushLog) = 1
    /\ flushLog[1].invalidated
    /\ currentBatch.paths # <<>>
    /\ \E r \in 1..MaxRuns : runs[r].kind = "reload" /\ runs[r].pc = "rebuilding"

\* ------------------------------------------------------------------------
\* C7: in non-supervise mode, once "exit" has been emitted for the child that
\* is Supervisor.process, shutdown(code ?? 1) of that child is requested or has
\* ended the parent.
C7_CurrentChildExitShutsDown ==
    (~supervise /\ lastExit # <<>> /\ lastExit[1].cur) =>
        LET req == [code |-> Nullish(lastExit[1].code, 1), from |-> "exit"] IN
        \/ \E i \in 1..Len(pendingShutdown) : pendingShutdown[i] = req
        \/ exitCode = <<req>>

\* ------------------------------------------------------------------------
NoExitShutdown ==
    /\ \A i \in 1..Len(pendingShutdown) : pendingShutdown[i].from # "exit"
    /\ \A i \in 1..Len(exitCode) : exitCode[i].from # "exit"

\* C8: in supervise mode no child exit requests a shutdown or ends the parent;
\* every enqueued change is eventually covered by a flush whose rebuild has
\* completed and whose restart has run; and each such restart leaves
\* Supervisor.process a newly spawned, running child.
C8_SuperviseKeepsReloading ==
    /\ [](supervise => NoExitShutdown)
    /\ \A k \in 1..MaxEnqueue :
          (supervise /\ Len(enqLog) >= k) ~> (reloaded >= k)
    /\ [][(supervise /\ reloaded' > reloaded) =>
             (current' # current /\ procs[current'].st = "none"
                /\ procs'[current'].st = "running")]_vars

\* In supervise mode a child has exited with code 2 and a change enqueued
\* afterwards has been reloaded into a new running child.
C8_Witness ==
    /\ supervise
    /\ parent = "running"
    /\ lastExit = <<[code |-> <<2>>, cur |-> TRUE]>>
    /\ reloaded >= 1
    /\ procs[current].st = "running"
    /\ \E c \in 1..MaxChildren : procs[c].st = "exited"

\* ------------------------------------------------------------------------
\* C10: without a flush the batch only grows and its invalidate flag never
\* goes from true to false; a flush leaves the empty batch with flag false.
C10_BatchMonotonic ==
    [][IF Len(flushLog') > Len(flushLog)
       THEN currentBatch' = EmptyBatch
       ELSE /\ currentBatch.invalidate => currentBatch'.invalidate
            /\ Len(currentBatch'.paths) >= Len(currentBatch.paths)]_vars

\* An enqueueReload(path, false) made after an enqueueReload(path, true) of
\* the same batch: the flag is still true.
C10_Witness ==
    /\ Len(currentBatch.paths) >= 2
    /\ currentBatch.invalidate
    /\ enqLog[Len(enqLog) - 1].invalidate
    /\ ~enqLog[Len(enqLog)].invalidate

\* ------------------------------------------------------------------------
\* C5: at most one child process is running.
C5_AtMostOneLiveChild ==
    Cardinality({c \in 1..MaxChildren : procs[c].st = "running"}) <= 1

\* C6: a child whose stop() timer has run and that is still running has been
\* sent SIGKILL.
C6_StopEscalatesToSigkill ==
    \A c \in timerFired : procs[c].st = "running" => "SIGKILL" \in procs[c].sigs

\* ------------------------------------------------------------------------
WorkerPostsOnce ==
    \A i \in CallIds :
        /\ posts[i] <= 1
        /\ handlers[i].pc \in {"tail", "done"} => posts[i] = 1

\* C3 as stated: every call that has ended took exactly one response, with
\* its own id, and returned or rethrew it, or it timed out having taken none;
\* the worker posts one response per call.
C3_OneMatchingResponseOrTimeout ==
    /\ \A i \in CallIds : outcome[i] # "none" =>
          \/ outcome[i] \in {"returned", "rethrown"} /\ got[i] = <<i>>
          \/ outcome[i] = "timed-out" /\ got[i] = <<>>
    /\ WorkerPostsOnce

\* C3 amended: a call may also end with the incorrect-id error, having taken
\* the one late response of an earlier call, and only after a call timed out.
C3_OneResponseOrTimeoutOrStaleId ==
    /\ \A i \in CallIds : outcome[i] # "none" =>
          \/ outcome[i] \in {"returned", "rethrown"} /\ got[i] = <<i>>
          \/ outcome[i] = "timed-out" /\ got[i] = <<>>
          \/ /\ outcome[i] = "bad-id"
             /\ Len(got[i]) = 1
             /\ got[i][1] < i
             /\ \E t \in timeouts : t < i
    /\ WorkerPostsOnce

\* Call 0 timed out, a later call returned its own response and another one
\* took a late response.
C3_Witness ==
    /\ \E i \in CallIds : outcome[i] = "returned"
    /\ \E i \in CallIds : outcome[i] = "bad-id"
    /\ \E i \in CallIds : outcome[i] = "timed-out"

\* C4: once handleCall has finished for the call the main thread is in, the
\* main thread is not asleep on it: its wait has returned "ok" or "not-equal".
C4_NoLostWakeup ==
    (mainpc \in {"sleeping", "resumed"} /\ handlers[mainCall].pc = "done") =>
        (mainpc = "resumed" /\ waitStatus \in {"ok", "not-equal"})

\* The worker finished before the main thread reached Atomics.wait.
C4_Witness ==
    /\ mainpc = "resumed"
    /\ waitStatus = "not-equal"
    /\ handlers[mainCall].pc = "done"

\* ------------------------------------------------------------------------
\* C9: every source path is in at most one build group of the build set.
C9_GroupUniqueness ==
    \A f \in Files :
        Cardinality({i \in 1..Len(compiledFiles) : f \in compiledFiles[i].files}) <= 1

\* ------------------------------------------------------------------------
\* C11: once the server has replied to "/compile P" the watcher's path set
\* holds P, and once it has replied to "/file-required [P1..Pn]" it holds
\* every Pi that is not under node_modules.
C11_WatcherGrowth ==
    \A i \in 1..Len(lastReply) :
        /\ lastReply[i].route = "/compile" => lastReply[i].request[1] \in watcher.paths
        /\ lastReply[i].route = "/file-required" =>
              \A j \in 1..Len(lastReply[i].request) :
                  ~IncludesNodeModules(lastReply[i].request[j]) =>
                      lastReply[i].request[j] \in watcher.paths

\* C12: no path of the watcher's path set is under node_modules.
C12_NoNodeModulesWatched ==
    \A path \in watcher.paths : ~IncludesNodeModules(path)

\* C13: the reply to a "/compile" whose requested file failed to compile is
\* an error body with the keys kind and message, and has no filenames key.
C13_CompileFailureRepliesError ==
    \A i \in 1..Len(lastReply) :
        (lastReply[i].route = "/compile" /\ lastReply[i].failed) =>
            /\ {"kind", "message"} \subseteq lastReply[i].body.keys
            /\ "filenames" \notin lastReply[i].body.keys

\* ------------------------------------------------------------------------
\* C14: no cleanup runs before shutdown is called; a parent ended by
\* shutdown(code) has stopped the supervisor (SIGTERM sent to a child still
\* running, its 5000 ms timer set), then run every registered cleanup once, in
\* registration order (the watcher is closed), then exited; and the exit code
\* is the code shutdown was called with.
C14_ShutdownOrder ==
    /\ [](parent # "exited" => shutdownTrace = <<>>)
    /\ []((parent = "exited" /\ exitCode[1].from # "default") =>
             /\ shutdownTrace = <<"stop">> \o RegistrationOrder \o <<"exit">>
             /\ \A i \in 1..Len(RegistrationOrder) :
                   Cardinality({j \in 1..Len(shutdownTrace) :
                                   shutdownTrace[j] = RegistrationOrder[i]}) = 1
             /\ current \in stopTimers
             /\ procs[current].st = "running" => "SIGTERM" \in procs[current].sigs
             /\ ~watcher.open)
    /\ [][(shutdownTrace' # shutdownTrace) =>
             (pendingShutdown # <<>> /\ exitCode' = <<Head(pendingShutdown)>>)]_vars

\* shutdown(2), requested by the exit of the first child, has ended the parent.
C14_Witness ==
    /\ parent = "exited"
    /\ exitCode = <<[code |-> 2, from |-> "exit"]>>
    /\ shutdownTrace # <<>>

\* ------------------------------------------------------------------------
\* C19: a parent that has ended after one of its SIGINT / SIGTERM handlers ran
\* has ended by an orderly shutdown with exit code 0.
C19_SignalExitsZero ==
    (/\ parent = "exited"
     /\ \/ \E i \in 1..Len(pendingShutdown) : pendingShutdown[i].from \in ParentSignals
        \/ exitCode[1].from \in ParentSignals) =>
        /\ exitCode[1].code = 0
        /\ shutdownTrace = <<"stop">> \o RegistrationOrder \o <<"exit">>

\* ------------------------------------------------------------------------
EvAnyStructural(from, to) == \E i \in from..to : evLog[i]

\* C15: a flushed batch has called invalidateBuildSet() iff one of the watcher
\* events collected in it was add, addDir, unlink or unlinkDir; a flush of a
\* batch of change events alone leaves the build set as it is and goes straight
\* to rebuild(), the other flushes invalidate first.
C15_InvalidateIffStructural ==
    /\ [](\A k \in 1..Len(flushLog) :
             flushLog[k].invalidated =
                EvAnyStructural(FlushedUpto(flushLog, k - 1) + 1, FlushedUpto(flushLog, k)))
    /\ [][Len(flushLog') > Len(flushLog) =>
             IF EvAnyStructural(Len(evLog) - Len(currentBatch.paths) + 1, Len(evLog))
             THEN ~rebuilt' /\ runs'[nextRun].pc = "invalidated"
             ELSE /\ rebuilt' = rebuilt
                  /\ compiledFiles' = compiledFiles
                  /\ runs'[nextRun].pc = "rebuilding"]_vars

\* A batch of a change and an unlink has been flushed with invalidation, and
\* its restart has run.
C15_Witness ==
    /\ Len(flushLog) = 1
    /\ Len(flushLog[1].paths) = 2
    /\ evLog = <<FALSE, TRUE>>
    /\ flushLog[1].invalidated
    /\ reloaded = 2

\* ------------------------------------------------------------------------
Without(globs, G) == SelectSeq(globs, LAMBDA glob : glob # G)

\* C16: when the last isFilenameIgnored(P) returned the glob G, the include
\* globs alone yield P, the include globs with every ignore glob omit P, and
\* the include globs with every ignore glob but G yield P.
C16_IgnoreDiagnostics ==
    \A i \in 1..Len(ignoreResult) :
        LET P == ignoreResult[i].file
            root == findRoot(P)
            config == projectConfig(root)
            includeGlobs == fileGlobPatterns(config)
            ignoreGlobs == ignoreFileGlobPatterns(config)
        IN ignoreResult[i].result # <<>> =>
              /\ P \in globby(includeGlobs, root)
              /\ P \notin globby(includeGlobs \o ignoreGlobs, root)
              /\ P \in globby(includeGlobs \o Without(ignoreGlobs, ignoreResult[i].result[1]), root)

\* ------------------------------------------------------------------------
\* C17: while less than 15 ms have passed since the last enqueueReload call
\* that call's path is still pending; an enqueueReload arriving in that time
\* appends its path behind it, flushes nothing and restarts the 15 ms wait;
\* reloadNow runs only once 15 ms have passed since the last call, never on an
\* empty batch, and each run flushes the whole pending batch, in arrival
\* order, as one batch with one reload activation (one restart).
C17_BurstFlushedOnce ==
    /\ []((timerArmed /\ ~waited) =>
             /\ currentBatch.paths # <<>>
             /\ currentBatch.paths[Len(currentBatch.paths)] = enqLog[Len(enqLog)].path)
    /\ [](\A r \in 1..MaxRuns : runs[r].pc # "threw")
    /\ [][(Len(enqLog') > Len(enqLog) /\ timerArmed /\ ~waited) =>
             /\ currentBatch'.paths = Append(currentBatch.paths, enqLog'[Len(enqLog')].path)
             /\ flushLog' = flushLog
             /\ nextRun' = nextRun
             /\ timerArmed' /\ ~waited']_vars
    /\ [][(\/ Len(flushLog') > Len(flushLog)
           \/ (nextRun' # nextRun /\ runs'[nextRun].kind = "reload")) =>
             /\ waited
             /\ flushLog' = Append(flushLog, [paths |-> currentBatch.paths,
                                              invalidated |-> currentBatch.invalidate])
             /\ nextRun' = nextRun + 1
             /\ currentBatch' = EmptyBatch
             /\ ~timerArmed']_vars
    /\ [][nextChild' # nextChild =>
             /\ nextChild' = nextChild + 1
             /\ \E r \in 1..MaxRuns : runs[r].pc = "rebuilding" /\ runs'[r].pc = "done"]_vars

\* A burst of two calls has been flushed as one batch and restarted once: the
\* boot's child and the reload's child are the only children spawned.
C17_Witness ==
    /\ Len(flushLog) = 1
    /\ Len(flushLog[1].paths) = 2
    /\ flushLog[1].paths[1] # flushLog[1].paths[2]
    /\ reloaded = 2
    /\ nextChild = 3
    /\ rsCount = 0

\* ------------------------------------------------------------------------
\* C18: a step either keeps every watched path or is the shutdown that ends
\* the parent; the steps of reloadNow and invalidateBuildSetAndReload
\* (invalidateBuildSet, rebuild, supervisor restart) leave the watcher as it is.
C18_WatcherOnlyGrows ==
    /\ [][\/ watcher.paths \subseteq watcher'.paths
          \/ (parent # "exited" /\ parent' = "exited" /\ shutdownTrace' # <<>>)]_vars
    /\ [][(\/ flushLog' # flushLog
           \/ runs' # runs
           \/ rebuilt' # rebuilt
           \/ compiledFiles' # compiledFiles
           \/ nextChild' # nextChild) => watcher' = watcher]_vars

\* Three paths are watched while an invalidating reload awaits its rebuild.
C18_Witness ==
    /\ watcher.paths = {FileA, FileB, FileM}
    /\ Len(flushLog) = 1
    /\ flushLog[1].invalidated
    /\ ~rebuilt
    /\ \E r \in 1..MaxRuns : runs[r].kind = "reload" /\ runs[r].pc = "rebuilding"

\* ------------------------------------------------------------------------
\* C20: a call that returned a result or rethrew an error took the response
\* carrying its own id, and a call that took a response carrying another id
\* ended with the incorrect-id error.
C20_NoForeignResponse ==
    \A i \in CallIds :
        /\ outcome[i] \in {"returned", "rethrown"} => (Len(got[i]) = 1 /\ got[i][1] = i)
        /\ (\E j \in 1..Len(got[i]) : got[i][j] # i) => outcome[i] = "bad-id"

\* A call took the late response of the call before it, which had timed out.
C20_Witness ==
    \E i \in CallIds :
        /\ i > 0
        /\ outcome[i] = "bad-id"
        /\ got[i] = <<i - 1>>
        /\ outcome[i - 1] = "timed-out"

\* ---------------------------------------------------------------- C21
\* C21: the first compile(P) of a path P that is in no group transforms
\* exactly P: every file the activation started by buildGroup is transforming
\* or has transformed is P itself, and the version it leaves in the build set
\* lies in the group keyed by the file's own root.
C21_FirstCompileTransformsOnlyP ==
    /\ \A k \in 1..MaxCompiles :
          (compiles[k].kind = "group" /\ compiles[k].pc = "building")
             => (compiles[k].pending \cup compiles[k].failed) \subseteq {compiles[k].file[1]}
    /\ \A i \in 1..Len(compiledFiles) :
          \A f \in compiledFiles[i].files : compiledFiles[i].root = findRoot(f)

\* ---------------------------------------------------------------- C22
\* The version group root holds for file f in groups, 0 when it holds none.
CodeAt(groups, root, f) ==
    LET at == {i \in 1..Len(groups) : groups[i].root = root} IN
    IF at = {} THEN 0 ELSE groups[CHOOSE i \in at : TRUE].code[f]

\* Activation k, a buildFile of an existing group, ends its transform of P in this step.
FileBuildEnds(k) ==
    /\ compiles[k].kind = "file"
    /\ compiles[k].pc = "building"
    /\ compiles[k].pending # {}
    /\ compiles'[k] # compiles[k]
    /\ compiles'[k].pending = {}

\* C22: compile(P) of a path P that belongs to a group is started as a
\* buildFile of P alone with that group's root; when its transform ends, the
\* group of that root holds P's new CompiledFile (or, if the transform failed,
\* the build set is as it was) and every other CompiledFile of every group is
\* the one it was.
C22_RecompilesJustP ==
    /\ [][\A k \in 1..MaxCompiles :
            (compiles[k].pc = "none" /\ compiles'[k].pc = "building")
               => /\ compiles'[k].kind = "file"
                  /\ compiles'[k].pending = {compiles'[k].file[1]}
                  /\ group(compiledFiles, compiles'[k].file[1]) # <<>>
                  /\ compiles'[k].root = group(compiledFiles, compiles'[k].file[1])[1].root
                  /\ compiledFiles' = compiledFiles]_vars
    /\ [][\A k \in 1..MaxCompiles :
            FileBuildEnds(k)
               => LET P == CHOOSE f \in compiles[k].pending : TRUE
                      root == compiles[k].root
                  IN /\ \/ compiledFiles' = compiledFiles
                        \/ CodeAt(compiledFiles', root, P) = k
                     /\ \A r \in PackageRoots : \A f \in Files :
                           (r # root \/ f # P)
                              => CodeAt(compiledFiles', r, f) = CodeAt(compiledFiles, r, f)]_vars

\* A group build by activation 1 left FileA and FileB in one group, and
\* compile(FileB) as activation 2 has replaced FileB's CompiledFile alone.
C22_Witness ==
    /\ compiles[2].kind = "file"
    /\ compiles[2].pending = {}
    /\ \E i \in 1..Len(compiledFiles) :
          /\ compiledFiles[i].code[FileB] = 2
          /\ compiledFiles[i].code[FileA] = 1

\* ---------------------------------------------------------------- C27
\* C27: the build set holds only CompiledFiles produced by compile()
\* activations that started after the last invalidateBuildSet().
C27_NoStaleRepopulation ==
    \A i \in 1..Len(compiledFiles) :
       \A f \in compiledFiles[i].files : compiledFiles[i].code[f] >= invalidatedAt

\* ---------------------------------------------------------------- C24
\* C24: while the debounce timer is pending the batch holds a path, so the
\* step in which the timer's callback runs reloadNow reads a non-empty
\* currentBatch.paths; no reloadNow activation throws on paths[0] and every
\* flushed batch holds a path, whatever earlier flushes are still in flight.
C24_FiresOnNonEmptyBatch ==
    /\ [](timerArmed => currentBatch.paths # <<>>)
    /\ [][(timerArmed /\ ~timerArmed' /\ nextRun' # nextRun) =>
             /\ currentBatch.paths # <<>>
             /\ runs'[nextRun].kind = "reload"
             /\ flushLog' = Append(flushLog, [paths |-> currentBatch.paths,
                                              invalidated |-> currentBatch.invalidate])]_vars
    /\ [](\A i \in 1..Len(flushLog) : flushLog[i].paths # <<>>)

\* reloadNow has fired a second time while the reload of the first flush was
\* still awaiting the compiler.
C24_Witness ==
    /\ Len(flushLog) = 2
    /\ \E r1, r2 \in 1..MaxRuns :
          /\ r1 < r2
          /\ runs[r1].kind = "reload" /\ runs[r1].pc \in {"invalidated", "rebuilding"}
          /\ runs[r2].kind = "reload" /\ runs[r2].pc \in {"invalidated", "rebuilding"}

\* ---------------------------------------------------------------- C25
\* C25: in non-supervise mode, when every restart after the boot came from a
\* flushed file change (no "rs" command), the step that emits "exit" with a
\* null code for a child that Supervisor.restart() had sent SIGKILL requests
\* no shutdown.
C25_RestartKillIsNoShutdown ==
    [][\A c \in DOMAIN procs :
          (/\ ~supervise
           /\ rsCount = 0
           /\ flushLog # <<>>
           /\ procs[c].st = "running"
           /\ "SIGKILL" \in procs[c].sigs
           /\ procs'[c].st = "exited"
           /\ lastExit' # <<>>
           /\ lastExit'[1].code = <<>>)
             => pendingShutdown' = pendingShutdown]_vars

\* ---------------------------------------------------------------- C26
\* C26: when Atomics.wait has returned "ok" or "not-equal" for a call, the
\* worker has posted that call's response and has incremented its slot after
\* it; in a run without timeouts the response is then the head of the port's
\* queue, and no call ends with "no response received".
C26_ResponsePostedBeforeWake ==
    /\ mainpc = "resumed" =>
          /\ waitStatus \in {"ok", "not-equal"}
          /\ posts[mainCall] = 1
          /\ slot[mainCall] # 0
    /\ (mainpc = "resumed" /\ timeouts = {}) =>
          /\ toMain # <<>>
          /\ Head(toMain).id = mainCall
    /\ timeouts = {} => \A i \in CallIds : outcome[i] # "no-response"

\* The second call's wait went to sleep and was woken "ok" by the worker's
\* notify, the first having found its slot already incremented ("not-equal" is
\* the only other way to a result), in a run without timeouts.
C26_Witness ==
    /\ timeouts = {}
    /\ mainpc = "resumed"
    /\ waitStatus = "ok"
    /\ mainCall = 1
    /\ posts[1] = 1
    /\ outcome[0] \in {"returned", "rethrown"}

\* ---------------------------------------------------------------- C23
\* C23: every enqueued change is eventually covered by a flush whose rebuild
\* has completed and whose restart has spawned a child, unless the parent has
\* shut down with the exit code of a child that ended by itself.
C23_EveryChangeReloaded ==
    \A k \in 1..MaxEnqueue :
       (Len(enqLog) >= k) ~>
          \/ reloaded >= k
          \/ /\ parent = "exited"
             /\ exitCode # <<>>
             /\ exitCode[1].from = "exit"
             /\ exitCode[1].code \in ExitCodes

====
